---- MODULE Spec2Model ----
(***************************************************************************)
(* libflux: setjmp/longjmp based protected scopes with deferred cleanup.   *)
(* The model follows src/libflux.h macro by macro.  Per thread, the        *)
(* lexical nesting of FLUX_TRY blocks is the sequence frames[t]; each      *)
(* frame holds the locals __l and __tls that FLUX_TRY declares.            *)
(***************************************************************************)
EXTENDS Integers, Sequences, FiniteSets, TLC

\* ---------------------------------------------------------------- sizes
\* FLUX_MAX_DEPTH, FLUX_POOL_SIZE and FLUX_ERROR_MSG_MAX are 64, 2048 and 512
\* in the source; the model keeps their role and scales the numbers down.
FLUX_MAX_DEPTH == 4
FLUX_POOL_SIZE == 2
FLUX_ERROR_MSG_MAX == 3
FileMax == 3

\* Budgets (scopes entered and guards registered per thread) of the
\* single-threaded specification, of the single-threaded specification with
\* deeper nesting, and of the two-threaded specification.
MaxScopes == 2
MaxGuards == 2
MaxScopesDeep == 3
MaxGuardsDeep == 2
MaxCalls == 4
MaxScopesMT == 1
MaxGuardsMT == 2

Threads == {1, 2}
Keys == 1..2

NullG == -1          \* (flux_guard_t*)NULL, pool slots are 0..FLUX_POOL_SIZE-1
NullPtr == 0         \* (void*)0, also (void*)(intptr_t)0 of FLUX_CLOSE_FD(0)
NullDtor == "NULL"
\* What the modelled program passes to FLUX_DEFER (action, argument; the
\* argument "fresh" is a handle no earlier registration used) and to
\* FLUX_THROW (code, message).
DeferInputs == {<<"free", "fresh">>, <<"free", "null">>, <<NullDtor, "fresh">>}
ThrowInputs == {<<4, <<1>>>>, <<1, <<1, 2, 3>>>>}
DeferInputsMT == {<<"free", "fresh">>}
ThrowInputsMT == {<<4, <<1>>>>}
LimitMsg == <<7, 7>>                  \* "resource limit exceeded"
SrcFile == <<"d", "/", "m">>          \* __FILE__ of the call site
SrcLine == 9                          \* __LINE__ of the call site

VARIABLES
  tls_key,      \* __flux_tls_key, 0 before the first pthread_key_create
  initialized,  \* __flux_initialized
  in_init,      \* the function-static in_init of __flux_init_once
  nkeys,        \* number of keys pthread_key_create has handed out
  specific,     \* specific[t][k]: pthread_getspecific(k) on thread t is non-NULL
  reg,          \* reg[t][k]: the flux_tls_t thread t stored under key k
  frames,       \* frames[t]: the open FLUX_TRY blocks of thread t, outermost first
  pc,           \* pc[t]: position of thread t
  head,         \* head[t]: the local `head` of __flux_release_guards
  acq,          \* acq[t]: key of the registry whose pool t is claiming from
  proc,         \* process status and what ended it
  diag,         \* errors written to stderr by flux_error_print
  lim,          \* budgets of this run
  nscope,       \* nscope[t]: scopes entered so far by t (names scope instances)
  registered,   \* registered[t]: history of FLUX_DEFER registrations
  invoked,      \* invoked[t]: history of cleanup calls dtor(ptr)
  signal,       \* signal[t]: arguments of the last FLUX_THROW of t that transferred
  last,         \* the last operation performed
  mk            \* one call of __flux_make_error: its arguments and its result

vars == <<tls_key, initialized, in_init, nkeys, specific, reg, frames, pc, head,
          acq, proc, diag, lim, nscope, registered, invoked, signal, last, mk>>

\* ------------------------------------------------------------ data model
Min(a, b) == IF a < b THEN a ELSE b

\* strncpy with the whole buffer as its bound: no room left for the terminator.
TakeNoTerminator(s, n) == SubSeq(s, 1, Min(Len(s), n + 1))

Take(s, n) == SubSeq(s, 1, Min(Len(s), n))

ZeroErr == [code |-> 0, msg |-> <<>>, file |-> <<>>, line |-> 0]

ZeroGuard == [dtor |-> NullDtor, ptr |-> NullPtr, next |-> NullG]

\* buf = 0 is a jmp_buf that setjmp never filled; otherwise it names the
\* FLUX_TRY block (scope instance) whose setjmp filled it.
ZeroScope == [buf |-> 0, err |-> ZeroErr, guards |-> NullG, active |-> FALSE]

ZeroPool == [guards |-> [i \in 0..(FLUX_POOL_SIZE - 1) |-> ZeroGuard], idx |-> 0]

\* calloc(1, sizeof(flux_tls_t)): every field zero, top included.
ZeroTls == [stack |-> [l \in 0..(FLUX_MAX_DEPTH - 1) |-> ZeroScope],
            top |-> 0,
            pool |-> ZeroPool]

\* __flux_get_tls after __flux_init_once: the registry of thread t under the
\* key currently in __flux_tls_key, freshly calloc'ed when none is stored.
GetTls(t) == IF specific[t][tls_key] THEN reg[t][tls_key] ELSE ZeroTls

\* strrchr(file, c): index of the last c in file, 0 when absent.
LastIndexOf(s, c) ==
  IF \E i \in 1..Len(s) : s[i] = c
  THEN CHOOSE i \in 1..Len(s) : s[i] = c /\ \A j \in (i + 1)..Len(s) : s[j] # c
  ELSE 0

Basename(file) ==
  LET slash == LastIndexOf(file, "/")
      sep == IF slash # 0 THEN slash ELSE LastIndexOf(file, "\\")
  IN  SubSeq(file, sep + 1, Len(file))

__flux_make_error(code, msg, file, line) ==
  [code |-> code,
   msg |-> Take(msg, FLUX_ERROR_MSG_MAX - 1),
   file |-> Take(Basename(file), FileMax),
   line |-> line]

Running == proc.status = "running"

NoSignal == [code |-> 0, msg |-> <<>>, sid |-> 0, limit |-> FALSE]

TopFrame(t) == frames[t][Len(frames[t])]

\* Positions in frames[t] of the blocks whose scope is entered and not popped.
ActiveFrames(t) == {j \in 1..Len(frames[t]) : frames[t][j].mode # "handler"}

\* Scope instances of t that are entered and not yet popped.
ActiveSids(t) == {frames[t][i].sid : i \in ActiveFrames(t)}

\* The innermost FLUX_TRY block of t whose scope is not popped (0: none):
\* the scope that lexically encloses the statement t is about to run.
Nearest(t) ==
  IF ActiveFrames(t) = {} THEN 0
  ELSE frames[t][CHOOSE i \in ActiveFrames(t) : \A j \in ActiveFrames(t) : j <= i].sid

\* Record of the operation a step performs: the thread, the operation, the
\* scope instance and stack level it acted on, the error it carried, and
\* the number of active scopes and the nearest one when it started.
NoEvent == [t |-> 0, op |-> "none", sid |-> 0, err |-> ZeroErr, depth |-> 0,
            act |-> 0, near |-> 0]

Event(t, op) == [t |-> t, op |-> op, sid |-> 0, err |-> ZeroErr, depth |-> 0,
                 act |-> Cardinality(ActiveSids(t)), near |-> Nearest(t)]

\* ------------------------------------------------------------------ init
InitWith(ts, scopes, guards, defers, throws) ==
  /\ tls_key = 0
  /\ initialized = FALSE
  /\ in_init = FALSE
  /\ nkeys = 0
  /\ specific = [t \in Threads |-> [k \in Keys |-> FALSE]]
  /\ reg = [t \in Threads |-> [k \in Keys |-> ZeroTls]]
  /\ frames = [t \in Threads |-> <<>>]
  /\ pc = [t \in Threads |-> "ready"]
  /\ head = [t \in Threads |-> NullG]
  /\ acq = [t \in Threads |-> 0]
  /\ proc = [status |-> "running", why |-> "none"]
  /\ diag = {}
  /\ lim = [threads |-> ts, scopes |-> scopes, guards |-> guards,
            defers |-> defers, throws |-> throws]
  /\ nscope = [t \in Threads |-> 0]
  /\ registered = [t \in Threads |-> <<>>]
  /\ invoked = [t \in Threads |-> <<>>]
  /\ signal = [t \in Threads |-> NoSignal]
  /\ last = NoEvent

\* No call of __flux_make_error is being looked at on its own.
NoMk == [code |-> 0, msg |-> <<>>, file |-> <<>>, line |-> 0, err |-> ZeroErr,
         done |-> FALSE]

Init == InitWith({1}, MaxScopes, MaxGuards, DeferInputs, ThrowInputs) /\ mk = NoMk

InitDeep ==
  InitWith({1}, MaxScopesDeep, MaxGuardsDeep, DeferInputs, ThrowInputs) /\ mk = NoMk

InitMT ==
  InitWith(Threads, MaxScopesMT, MaxGuardsMT, DeferInputsMT, ThrowInputsMT) /\ mk = NoMk

\* --------------------------------------------------- __flux_init_once
\* Every macro starts with __flux_get_tls, which starts with
\* __flux_init_once.  A thread that loads __flux_initialized = false walks
\* the statements of lines 75..87 one at a time; the reads and writes of
\* in_init and __flux_tls_key are plain (unsynchronised) accesses.
InitLoad(t) ==
  /\ Running /\ pc[t] = "ready" /\ ~initialized
  /\ pc' = [pc EXCEPT ![t] = "init_chk"]
  /\ last' = Event(t, "init_load")
  /\ UNCHANGED <<tls_key, initialized, in_init, nkeys, specific, reg, frames,
                 head, acq, proc, diag, lim, nscope, registered, invoked, signal>>

InitCheck(t) ==
  /\ Running /\ pc[t] = "init_chk"
  /\ IF in_init
     THEN /\ proc' = [status |-> "aborted", why |-> "in_init"]
          /\ pc' = pc
     ELSE /\ pc' = [pc EXCEPT ![t] = "init_set"]
          /\ proc' = proc
  /\ last' = Event(t, "init_check")
  /\ UNCHANGED <<tls_key, initialized, in_init, nkeys, specific, reg, frames,
                 head, acq, diag, lim, nscope, registered, invoked, signal>>

InitSetIn(t) ==
  /\ Running /\ pc[t] = "init_set"
  /\ in_init' = TRUE
  /\ pc' = [pc EXCEPT ![t] = "init_create"]
  /\ last' = Event(t, "init_set")
  /\ UNCHANGED <<tls_key, initialized, nkeys, specific, reg, frames,
                 head, acq, proc, diag, lim, nscope, registered, invoked, signal>>

InitCreate(t) ==
  /\ Running /\ pc[t] = "init_create"
  /\ nkeys' = nkeys + 1
  /\ tls_key' = nkeys + 1
  /\ pc' = [pc EXCEPT ![t] = "init_store"]
  /\ last' = Event(t, "init_create")
  /\ UNCHANGED <<initialized, in_init, specific, reg, frames,
                 head, acq, proc, diag, lim, nscope, registered, invoked, signal>>

InitStore(t) ==
  /\ Running /\ pc[t] = "init_store"
  /\ initialized' = TRUE
  /\ pc' = [pc EXCEPT ![t] = "init_clear"]
  /\ last' = Event(t, "init_store")
  /\ UNCHANGED <<tls_key, in_init, nkeys, specific, reg, frames,
                 head, acq, proc, diag, lim, nscope, registered, invoked, signal>>

InitClear(t) ==
  /\ Running /\ pc[t] = "init_clear"
  /\ in_init' = FALSE
  /\ pc' = [pc EXCEPT ![t] = "ready"]
  /\ last' = Event(t, "init_clear")
  /\ UNCHANGED <<tls_key, initialized, nkeys, specific, reg, frames,
                 head, acq, proc, diag, lim, nscope, registered, invoked, signal>>

\* A macro can run on t: t is between macros and __flux_init_once returns at
\* its first line.
CanCall(t) == Running /\ pc[t] = "ready" /\ initialized

\* Store registry r for thread t under the current key (pthread_setspecific
\* on first use, then the writes through the returned pointer).
PutTls(t, r) ==
  /\ reg' = [reg EXCEPT ![t][tls_key] = r]
  /\ specific' = [specific EXCEPT ![t][tls_key] = TRUE]

PopScopeKeepTop(r, l) == [r EXCEPT !.stack[l].active = FALSE]

\* Lines 199..200 and 204..205: mark the record at level l inactive and
\* decrement top.
PopScope(r, l) == [r EXCEPT !.stack[l].active = FALSE, !.top = @ - 1]

\* ------------------------------------------------------------- FLUX_TRY
FLUX_TRY(t) ==
  /\ CanCall(t)
  /\ nscope[t] < lim.scopes \/ GetTls(t).top + 1 >= FLUX_MAX_DEPTH
  /\ LET tls == GetTls(t) IN
     IF tls.top + 1 >= FLUX_MAX_DEPTH
     THEN /\ proc' = [status |-> "aborted", why |-> "depth"]
          /\ PutTls(t, tls)
          /\ last' = [Event(t, "try_abort") EXCEPT !.depth = tls.top]
          /\ UNCHANGED <<frames, nscope>>
     ELSE LET l == tls.top + 1
              sid == nscope[t] + 1
          IN  /\ PutTls(t, [tls EXCEPT !.top = l,
                                       !.stack[l].guards = NullG,
                                       !.stack[l].active = TRUE,
                                       !.stack[l].buf = sid,
                                       !.pool.idx = 0])
              /\ frames' = [frames EXCEPT ![t] =
                   Append(@, [l |-> l, key |-> tls_key, sid |-> sid, mode |-> "body",
                              seen |-> ZeroErr])]
              /\ nscope' = [nscope EXCEPT ![t] = sid]
              /\ last' = [Event(t, "try") EXCEPT !.sid = sid, !.depth = l]
              /\ proc' = proc
  /\ UNCHANGED <<tls_key, initialized, in_init, nkeys, pc, head, acq, diag, lim,
                 registered, invoked, signal>>

\* ----------------------------------------- FLUX_CATCH, setjmp() == 0 arm
\* The body of the innermost block ran to its end: lines 199..200 through
\* the block's own __tls and __l, then FLUX_END_TRY closes the block.
NormalExit(t) ==
  /\ CanCall(t)
  /\ frames[t] # <<>>
  /\ LET f == frames[t][Len(frames[t])] IN
     /\ f.mode = "body"
     /\ reg' = [reg EXCEPT ![t][f.key] = PopScope(@, f.l)]
     /\ frames' = [frames EXCEPT ![t] = SubSeq(@, 1, Len(@) - 1)]
     /\ last' = [Event(t, "exit") EXCEPT !.sid = f.sid, !.depth = f.l]
  /\ UNCHANGED <<tls_key, initialized, in_init, nkeys, specific, pc, head, acq, proc,
                 diag, lim, nscope, registered, invoked, signal>>

\* ----------------------------------------------------------- FLUX_THROW
\* Position in frames[t] of the FLUX_TRY block whose setjmp filled buf, 0
\* when buf was never filled or that block is gone.
FrameOf(t, buf) ==
  IF \E i \in 1..Len(frames[t]) : frames[t][i].sid = buf
  THEN CHOOSE i \in 1..Len(frames[t]) : frames[t][i].sid = buf
  ELSE 0

ThrowLevelBelow(tls) == IF tls.top >= 1 THEN tls.top - 1 ELSE tls.top

\* The record a failure is stored into and whose capture point is jumped to.
ThrowLevel(tls) == tls.top

\* The body of FLUX_THROW(code, msg) run by t, where regT and specT are t's
\* registries and their presence at that point.  longjmp through a jmp_buf
\* that no live setjmp filled is undefined: the process dies on a fault, or
\* the thread runs on from an arbitrary place ("ub").
ThrowBody(t, regT, specT, code, msg, limit) ==
  LET tls == IF specT[tls_key] THEN regT[tls_key] ELSE ZeroTls
      e == __flux_make_error(code, msg, SrcFile, SrcLine)
  IN
  /\ specific' = [specific EXCEPT ![t] = [specT EXCEPT ![tls_key] = TRUE]]
  /\ IF tls.top >= 0 /\ tls.top < FLUX_MAX_DEPTH
     THEN LET lv == ThrowLevel(tls)
              buf == tls.stack[lv].buf
              regE == [regT EXCEPT ![tls_key] = [tls EXCEPT !.stack[lv].err = e]]
              i == FrameOf(t, buf)
          IN
          /\ reg' = [reg EXCEPT ![t] = regE]
          /\ diag' = diag
          /\ IF buf = 0 \/ i = 0
             THEN /\ \/ /\ proc' = [status |-> "crashed", why |-> "longjmp"]
                        /\ pc' = pc
                     \/ /\ proc' = proc
                        /\ pc' = [pc EXCEPT ![t] = "ub"]
                  /\ UNCHANGED <<frames, head, signal>>
                  /\ last' = [Event(t, "throw_ub") EXCEPT !.err = e, !.depth = tls.top]
             ELSE LET f == frames[t][i] IN
                  /\ frames' = [frames EXCEPT ![t] =
                       Append(SubSeq(@, 1, i - 1), [f EXCEPT !.mode = "unwind"])]
                  /\ head' = [head EXCEPT ![t] = regE[f.key].stack[f.l].guards]
                  /\ pc' = [pc EXCEPT ![t] = "unwind"]
                  /\ proc' = proc
                  /\ signal' = [signal EXCEPT ![t] =
                       [code |-> code, msg |-> msg, sid |-> f.sid, limit |-> limit]]
                  /\ last' = [Event(t, "throw") EXCEPT
                                !.sid = f.sid, !.err = e, !.depth = tls.top]
     ELSE /\ reg' = [reg EXCEPT ![t] = [regT EXCEPT ![tls_key] = tls]]
          /\ diag' = IF e.msg # <<>> THEN diag \cup {e} ELSE diag
          /\ proc' = [status |-> "aborted", why |-> "throw"]
          /\ last' = [Event(t, "throw_abort") EXCEPT !.err = e, !.depth = tls.top]
          /\ UNCHANGED <<frames, head, pc, signal>>

FLUX_THROW(t) ==
  /\ CanCall(t)
  /\ \E in \in lim.throws : ThrowBody(t, reg[t], specific[t], in[1], in[2], FALSE)
  /\ UNCHANGED <<tls_key, initialized, in_init, nkeys, acq, lim, nscope,
                 registered, invoked>>

\* ----------------------------------------------------------- FLUX_DEFER
\* Scope instance that owns the topmost record of tls (0: no scope).
OwnerOf(tls) ==
  IF tls.stack[tls.top].active THEN tls.stack[tls.top].buf ELSE 0

DeferNextUnlinked(tls) == NullG

\* Line 217: the new guard's next is the head of the topmost record's list.
DeferNext(tls) == tls.stack[tls.top].guards

\* __flux_acquire_guard finding room, then lines 215..218.  The modelled
\* program registers only while a scope is active.
FLUX_DEFER(t) ==
  /\ CanCall(t)
  /\ OwnerOf(GetTls(t)) # 0
  /\ Len(registered[t]) < lim.guards
  /\ LET tls == GetTls(t)
         idx == tls.pool.idx
     IN
     /\ idx < FLUX_POOL_SIZE
     /\ \E in \in lim.defers :
          LET dt == in[1]
              p == IF in[2] = "fresh" THEN Len(registered[t]) + 1 ELSE NullPtr
          IN
          /\ PutTls(t, [tls EXCEPT
                          !.pool.idx = idx + 1,
                          !.pool.guards[idx] =
                             [dtor |-> dt, ptr |-> p, next |-> DeferNext(tls)],
                          !.stack[tls.top].guards = idx])
          /\ registered' = [registered EXCEPT ![t] =
               Append(@, [sid |-> OwnerOf(tls), dtor |-> dt, ptr |-> p, slot |-> idx,
                          at |-> nscope[t]])]
          /\ last' = [Event(t, "defer") EXCEPT !.sid = OwnerOf(tls), !.depth = tls.top]
  /\ UNCHANGED <<tls_key, initialized, in_init, nkeys, frames, pc, head, acq, proc,
                 diag, lim, nscope, invoked, signal>>

\* __flux_acquire_guard on a full pool, line 117: the fetch_add has run, the
\* fetch_sub of line 119 has not.
DeferFull(t) ==
  /\ CanCall(t)
  /\ OwnerOf(GetTls(t)) # 0
  /\ LET tls == GetTls(t)
         idx == tls.pool.idx
     IN
     /\ idx >= FLUX_POOL_SIZE
     /\ PutTls(t, [tls EXCEPT !.pool.idx = idx + 1])
     /\ last' = [Event(t, "defer_full") EXCEPT !.sid = OwnerOf(tls), !.depth = tls.top]
  /\ acq' = [acq EXCEPT ![t] = tls_key]
  /\ pc' = [pc EXCEPT ![t] = "acq_full"]
  /\ UNCHANGED <<tls_key, initialized, in_init, nkeys, frames, head, proc,
                 diag, lim, nscope, registered, invoked, signal>>

\* Lines 119..120, then the else arm of FLUX_DEFER: FLUX_THROW_LIMIT().
DeferLimit(t) ==
  /\ Running /\ pc[t] = "acq_full"
  /\ LET regT == [reg[t] EXCEPT ![acq[t]].pool.idx = @ - 1] IN
     ThrowBody(t, regT, specific[t], 5, LimitMsg, TRUE)
  /\ acq' = [acq EXCEPT ![t] = 0]
  /\ UNCHANGED <<tls_key, initialized, in_init, nkeys, lim, nscope,
                 registered, invoked>>

\* ------------------------------------- FLUX_CATCH, setjmp() != 0 arm
\* One turn of the loop of __flux_release_guards, entered from line 203 with
\* head = __tls->stack[__l].guards: call the cleanup when both its action
\* and its argument are non-null, then follow next.
ReleaseCalls(g) == g.dtor # NullDtor /\ g.ptr # NullPtr

\* A cleanup action whose body runs FLUX_THROW.
ThrowingDtor == "throws"

ReleaseGuard(t) ==
  /\ Running /\ pc[t] = "unwind"
  /\ head[t] # NullG
  /\ LET f == TopFrame(t)
         g == reg[t][f.key].pool.guards[head[t]]
     IN
     /\ g.dtor # ThrowingDtor \/ ~ReleaseCalls(g)
     /\ IF ReleaseCalls(g)
        THEN /\ Len(invoked[t]) < MaxCalls
             /\ invoked' = [invoked EXCEPT ![t] =
                  Append(@, [dtor |-> g.dtor, ptr |-> g.ptr, by |-> f.sid,
                             live |-> registered[t][g.ptr].sid \in ActiveSids(t)])]
        ELSE invoked' = invoked
     /\ head' = [head EXCEPT ![t] = g.next]
     /\ last' = [Event(t, "release") EXCEPT !.sid = f.sid, !.depth = f.l]
  /\ UNCHANGED <<tls_key, initialized, in_init, nkeys, specific, reg, frames, pc,
                 acq, proc, diag, lim, nscope, registered, signal>>

\* Line 131 calls a cleanup that itself runs FLUX_THROW: the call never
\* returns to the loop; FLUX_THROW finds top still at the unwinding scope's
\* level (line 204 has not run) and jumps through that record's jmp_buf.
ReleaseThrowing(t) ==
  /\ Running /\ pc[t] = "unwind"
  /\ head[t] # NullG
  /\ Len(invoked[t]) < MaxCalls
  /\ LET f == TopFrame(t)
         g == reg[t][f.key].pool.guards[head[t]]
     IN
     /\ ReleaseCalls(g) /\ g.dtor = ThrowingDtor
     /\ invoked' = [invoked EXCEPT ![t] =
          Append(@, [dtor |-> g.dtor, ptr |-> g.ptr, by |-> f.sid,
                     live |-> registered[t][g.ptr].sid \in ActiveSids(t)])]
     /\ \E in \in lim.throws : ThrowBody(t, reg[t], specific[t], in[1], in[2], FALSE)
  /\ UNCHANGED <<tls_key, initialized, in_init, nkeys, acq, lim, nscope, registered>>

\* The loop has ended: lines 204..205, and the handler body starts with
\* e = &__tls->stack[__l].err.
Caught(t) ==
  /\ Running /\ pc[t] = "unwind"
  /\ head[t] = NullG
  /\ LET f == TopFrame(t) IN
     /\ reg' = [reg EXCEPT ![t][f.key] = PopScope(@, f.l)]
     /\ frames' = [frames EXCEPT ![t][Len(frames[t])] =
          [@ EXCEPT !.mode = "handler", !.seen = reg[t][f.key].stack[f.l].err]]
     /\ last' = [Event(t, "caught") EXCEPT
                   !.sid = f.sid, !.depth = f.l, !.err = reg[t][f.key].stack[f.l].err]
  /\ pc' = [pc EXCEPT ![t] = "ready"]
  /\ UNCHANGED <<tls_key, initialized, in_init, nkeys, specific, head, acq, proc,
                 diag, lim, nscope, registered, invoked, signal>>

\* FLUX_END_TRY after the handler body.
HandlerEnd(t) ==
  /\ CanCall(t)
  /\ frames[t] # <<>>
  /\ TopFrame(t).mode = "handler"
  /\ frames' = [frames EXCEPT ![t] = SubSeq(@, 1, Len(@) - 1)]
  /\ last' = [Event(t, "end") EXCEPT !.sid = TopFrame(t).sid, !.depth = TopFrame(t).l]
  /\ UNCHANGED <<tls_key, initialized, in_init, nkeys, specific, reg, pc, head, acq,
                 proc, diag, lim, nscope, registered, invoked, signal>>

Next ==
  /\ UNCHANGED mk
  /\ \E t \in lim.threads :
    \/ InitLoad(t) \/ InitCheck(t) \/ InitSetIn(t) \/ InitCreate(t)
    \/ InitStore(t) \/ InitClear(t)
    \/ FLUX_TRY(t)
    \/ NormalExit(t)
    \/ FLUX_THROW(t)
    \/ FLUX_DEFER(t)
    \/ DeferFull(t)
    \/ DeferLimit(t)
    \/ ReleaseGuard(t)
    \/ Caught(t)
    \/ HandlerEnd(t)

Spec == Init /\ [][Next]_vars

SpecDeep == InitDeep /\ [][Next]_vars

SpecMT == InitMT /\ [][Next]_vars

\* ------------------------------------------ cleanup actions that throw
MaxScopesCleanup == 2
MaxGuardsCleanup == 2

DeferInputsCleanup == {<<"free", "fresh">>, <<ThrowingDtor, "fresh">>}

InitCleanup ==
  /\ InitWith({1}, MaxScopesCleanup, MaxGuardsCleanup, DeferInputsCleanup, ThrowInputsMT)
  /\ mk = NoMk

NextCleanup ==
  \/ Next
  \/ UNCHANGED mk /\ \E t \in lim.threads : ReleaseThrowing(t)

SpecCleanup == InitCleanup /\ [][NextCleanup]_vars

\* ------------------------------------------- __flux_make_error on its own
\* Strings of length 0..n over the characters of cs.
RECURSIVE StringsUpTo(_, _)
StringsUpTo(cs, n) ==
  IF n = 0 THEN {<<>>}
  ELSE LET shorter == StringsUpTo(cs, n - 1)
       IN  shorter \cup {Append(w, c) : w \in {v \in shorter : Len(v) = n - 1}, c \in cs}

MsgChars == {1, 2}
PathChars == {"/", "\\", "a"}

\* Messages up to two bytes longer than the buffer holds, paths with both
\* kinds of separator and one byte longer than the file field holds.
MkMsgs == StringsUpTo(MsgChars, FLUX_ERROR_MSG_MAX + 1)
MkFiles == StringsUpTo(PathChars, FileMax + 1)

InitErr ==
  /\ InitWith({}, 0, 0, {}, {})
  /\ mk \in [code : {4}, msg : MkMsgs, file : MkFiles, line : {SrcLine},
              err : {ZeroErr}, done : {FALSE}]

\* flux_error_t e = __flux_make_error(code, msg, file, line).
MakeError ==
  /\ ~mk.done
  /\ mk' = [mk EXCEPT !.err = __flux_make_error(mk.code, mk.msg, mk.file, mk.line),
                      !.done = TRUE]
  /\ UNCHANGED <<tls_key, initialized, in_init, nkeys, specific, reg, frames, pc,
                 head, acq, proc, diag, lim, nscope, registered, invoked, signal, last>>

NextErr == MakeError

SpecErr == InitErr /\ [][NextErr]_vars

\* ================================================================ claims
Reverse(q) == [i \in 1..Len(q) |-> q[Len(q) + 1 - i]]

\* The (action, argument) pairs of a history of registrations or calls.
Pairs(q) == [i \in 1..Len(q) |-> <<q[i].dtor, q[i].ptr>>]

IsOwnedBy(s, r) == r.sid = s

IsCalledBy(s, c) == c.by = s

\* Registrations made while scope instance s of thread t was the topmost
\* record, in registration order.
RegsOf(t, s) == SelectSeq(registered[t], LAMBDA r : IsOwnedBy(s, r))

\* Cleanup calls made by the unwind of scope instance s of thread t, in order.
CallsBy(t, s) == SelectSeq(invoked[t], LAMBDA c : IsCalledBy(s, c))

HasAction(r) == r.dtor # NullDtor

\* The registrations of q that carry a cleanup action.
WithAction(q) == SelectSeq(q, HasAction)

AllCallable(q) == \A i \in 1..Len(q) : q[i].dtor # NullDtor /\ q[i].ptr # NullPtr

\* Thread t has just reached the first statement of the handler of the
\* scope instance last.sid.
HandlerStarts(t) == last.op = "caught" /\ last.t = t

\* No scope was entered between the entry of last.sid and now.
NoNestedSince(t) == nscope[t] = last.sid

\* C1: a scope with N registered guards (non-null action and argument, no
\* nested scope entered) that fails has, when its handler starts, called
\* exactly those N cleanups, in reverse registration order, each once, each
\* with its own argument.
C1_ReverseOrderOnThrow ==
  \A t \in Threads :
    (HandlerStarts(t) /\ NoNestedSince(t) /\ AllCallable(RegsOf(t, last.sid)))
      => Pairs(CallsBy(t, last.sid)) = Reverse(Pairs(RegsOf(t, last.sid)))

C1_Witness ==
  \E t \in Threads :
    /\ HandlerStarts(t) /\ NoNestedSince(t) /\ AllCallable(RegsOf(t, last.sid))
    /\ Len(RegsOf(t, last.sid)) >= 2
    /\ Pairs(CallsBy(t, last.sid)) = Reverse(Pairs(RegsOf(t, last.sid)))

\* C2: when the handler of S starts, the error it reads has the code and
\* the message (when within the length bound) that were passed to
\* FLUX_THROW, every guard S registered with a cleanup action has been
\* called, and S has been popped.
C2_HandlerSeesErrorAfterCleanup ==
  \A t \in Threads :
    HandlerStarts(t) =>
      LET f == TopFrame(t)
          r == reg[t][f.key]
          e == r.stack[f.l].err
      IN  /\ signal[t].sid = f.sid
          /\ e.code = signal[t].code
          /\ (Len(signal[t].msg) <= FLUX_ERROR_MSG_MAX - 1 => e.msg = signal[t].msg)
          /\ \A i \in 1..Len(registered[t]) :
               (registered[t][i].sid = f.sid /\ registered[t][i].dtor # NullDtor)
                 => \E j \in 1..Len(invoked[t]) :
                      /\ invoked[t][j].by = f.sid
                      /\ invoked[t][j].ptr = registered[t][i].ptr
          /\ r.top = f.l - 1
          /\ ~r.stack[f.l].active

\* C3: when a failure is signaled inside a scope nested in an active outer
\* scope, only guards the nested scope registered are called, control
\* resumes in the nested scope's handler, and afterwards the outer record
\* is active and topmost, with none of the outer scope's guards called.
C3_NestedFailureLeavesOuter ==
  \A t \in Threads :
    (HandlerStarts(t) /\ last.act >= 2) =>
      LET f == TopFrame(t)
          r == reg[t][f.key]
          outer == r.stack[f.l - 1].buf
      IN  /\ f.sid = last.near /\ f.mode = "handler"
          /\ \A j \in 1..Len(invoked[t]) :
               invoked[t][j].by = f.sid
                 => registered[t][invoked[t][j].ptr].sid = f.sid
          /\ r.top = f.l - 1
          /\ r.stack[f.l - 1].active
          /\ outer \in ActiveSids(t)
          /\ \A j \in 1..Len(invoked[t]) :
               registered[t][invoked[t][j].ptr].sid # outer

\* C4: on one thread with strictly nested scopes, no registered guard is
\* called more than once in total, and none is called after the scope that
\* registered it has exited.
C4_GuardAtMostOnceWhileOwnerLive ==
  \A t \in Threads :
    /\ \A i, j \in 1..Len(invoked[t]) :
         invoked[t][i].ptr = invoked[t][j].ptr => i = j
    /\ \A i \in 1..Len(invoked[t]) : invoked[t][i].live

ThrowOps == {"throw", "throw_ub", "throw_abort"}

\* C6: a failure signaled while no scope is active performs no transfer:
\* the error is written to the diagnostic sink and the process aborts.
C6_ThrowWithoutScopeAborts ==
  (last.op \in ThrowOps /\ last.act = 0) =>
    /\ last.op = "throw_abort"
    /\ proc.status = "aborted"
    /\ last.err \in diag

\* C7: from a fresh registry exactly FLUX_MAX_DEPTH scopes can be nested:
\* an entry aborts only when FLUX_MAX_DEPTH scopes are active, and every
\* entry with fewer active scopes succeeds.
C7_ExactlyMaxDepthScopes ==
  /\ last.op = "try_abort" => last.act = FLUX_MAX_DEPTH
  /\ last.op = "try" => last.act + 1 <= FLUX_MAX_DEPTH

\* C8: in a scope with no nested scope, the registration after the
\* FLUX_POOL_SIZE-th writes no pool slot and no guard list, and signals
\* code 5 to that scope's handler, whose unwind has called the
\* FLUX_POOL_SIZE registered guards (those that carry a cleanup action) in
\* reverse order; the cursor equals the capacity.
C8_PoolExhaustionIsRecoverable ==
  \A t \in Threads :
    (HandlerStarts(t) /\ signal[t].limit /\ NoNestedSince(t) /\ last.act >= 1) =>
      LET f == TopFrame(t)
          r == reg[t][f.key]
          rs == RegsOf(t, f.sid)
      IN  /\ signal[t].sid = f.sid
          /\ r.stack[f.l].err.code = 5
          /\ Len(rs) = FLUX_POOL_SIZE
          /\ \A i \in 1..Len(rs) :
               r.pool.guards[i - 1] =
                 [dtor |-> rs[i].dtor, ptr |-> rs[i].ptr,
                  next |-> IF i = 1 THEN NullG ELSE i - 2]
          /\ r.stack[f.l].guards = FLUX_POOL_SIZE - 1
          /\ r.pool.idx = FLUX_POOL_SIZE
          /\ Pairs(CallsBy(t, f.sid)) = Reverse(Pairs(WithAction(rs)))

\* C9: a failure signaled while some scope is active transfers to the
\* nearest enclosing active scope and to no other, and the handler that
\* starts is the handler of that scope.
C9_DeliveredToNearest ==
  /\ (last.op \in ThrowOps /\ last.act >= 1) =>
       /\ last.op = "throw"
       /\ last.sid = last.near
       /\ TopFrame(last.t).sid = last.near
       /\ TopFrame(last.t).mode = "unwind"
       /\ signal[last.t].sid = last.near
  /\ \A t \in Threads :
       HandlerStarts(t) => (last.sid = signal[t].sid /\ TopFrame(t).sid = last.sid)

\* A failure signaled after a later scope has been entered and popped (from
\* the outer body or from the later scope's handler) reaches the enclosing
\* scope.
C9_Witness ==
  /\ last.op = "throw"
  /\ last.sid = last.near
  /\ last.sid < nscope[last.t]

\* The registry __flux_get_tls hands to thread u.
View(u) == IF tls_key \in Keys /\ specific[u][tls_key] THEN reg[u][tls_key] ELSE ZeroTls

\* C10: a step of one thread changes nothing of another thread (one whose
\* behaviour is still defined): not the
\* registry (scope stack, pool, error slots) the other thread works on, not
\* its open blocks, its registrations, its cleanup calls or the failure
\* delivered to it.
C10_ThreadIsolation ==
  [][\A u \in Threads :
       (last'.t # u /\ pc[u] # "ub") =>
         /\ View(u)' = View(u)
         /\ frames'[u] = frames[u]
         /\ registered'[u] = registered[u]
         /\ invoked'[u] = invoked[u]
         /\ signal'[u] = signal[u]]_vars

\* C11: once a scope has exited, by normal completion or by a handled
\* failure, every resource acquired in it through an auto-cleanup wrapper
\* (a registration of free or fclose with the non-null handle just
\* acquired) has been released exactly once.
C11_NoLeakAfterScopeExit ==
  \A t \in Threads :
    (last.t = t /\ last.op \in {"exit", "caught"}) =>
      \A i \in 1..Len(registered[t]) :
        (registered[t][i].sid = last.sid /\ registered[t][i].dtor = "free"
           /\ registered[t][i].ptr # NullPtr)
          => Cardinality({j \in 1..Len(invoked[t]) :
                            invoked[t][j].ptr = registered[t][i].ptr}) = 1

\* C12: the stored message is the first min(L, FLUX_ERROR_MSG_MAX - 1) bytes
\* of the message passed: unchanged when it fits, cut to exactly
\* FLUX_ERROR_MSG_MAX - 1 bytes when it does not, never longer than the
\* buffer less its terminator.
C12_MessageTruncation ==
  mk.done =>
    /\ Len(mk.err.msg) <= FLUX_ERROR_MSG_MAX - 1
    /\ Len(mk.msg) <= FLUX_ERROR_MSG_MAX - 1 => mk.err.msg = mk.msg
    /\ Len(mk.msg) > FLUX_ERROR_MSG_MAX - 1 =>
         /\ Len(mk.err.msg) = FLUX_ERROR_MSG_MAX - 1
         /\ \A i \in 1..(FLUX_ERROR_MSG_MAX - 1) : mk.err.msg[i] = mk.msg[i]

C12_Witness ==
  /\ mk.done
  /\ Len(mk.msg) > FLUX_ERROR_MSG_MAX - 1
  /\ Len(mk.err.msg) = FLUX_ERROR_MSG_MAX - 1

Seps == {"/", "\\"}

\* The positions of directory separators in path p.
SepPositions(p) == {i \in 1..Len(p) : p[i] \in Seps}

\* The final path component of p: what follows its last separator.
FinalComponent(p) ==
  IF SepPositions(p) = {} THEN p
  ELSE LET k == CHOOSE i \in SepPositions(p) : \A j \in SepPositions(p) : j <= i
       IN  [i \in 1..(Len(p) - k) |-> p[k + i]]

\* C13: the recorded source file is the final path component of the path
\* passed (the whole path when it has no separator), cut to FileMax bytes.
C13_BasenameOnly ==
  mk.done =>
    LET c == FinalComponent(mk.file) IN
    /\ Len(mk.err.file) = Min(Len(c), FileMax)
    /\ \A i \in 1..Len(mk.err.file) : mk.err.file[i] = c[i]

\* Every guard of scope instance s was registered before any scope nested
\* in s was entered.
RegisteredBeforeNested(t, s) ==
  \A i \in 1..Len(registered[t]) :
    registered[t][i].sid = s => registered[t][i].at = s

\* C14: an outer scope registers guards g1..gk (non-null action and
\* argument), a nested scope is entered, registers guards of the same kind
\* and exits, and the outer scope then
\* fails without having registered anything further: when the outer handler
\* starts, the outer unwind has called exactly g1..gk, in reverse order,
\* each once, and no guard of the nested scope.
C14_OuterGuardsSurviveNested ==
  \A t \in Threads :
    (/\ HandlerStarts(t)
     /\ nscope[t] > last.sid
     /\ AllCallable(registered[t])
     /\ RegisteredBeforeNested(t, last.sid))
      => Pairs(CallsBy(t, last.sid)) = Reverse(Pairs(RegsOf(t, last.sid)))

\* Following next from guard index h in registry r reaches the end of the
\* list within n steps.
RECURSIVE EndsWithin(_, _, _)
EndsWithin(r, h, n) ==
  IF h = NullG THEN TRUE
  ELSE IF n = 0 THEN FALSE
  ELSE EndsWithin(r, r.pool.guards[h].next, n - 1)

\* C15: the guard list of every active scope is finite and acyclic: from
\* its head the end of the list is reached within as many steps as the pool
\* has slots, so its unwind can terminate.
C15_GuardListsAcyclic ==
  \A t \in Threads :
    \A i \in 1..Len(frames[t]) :
      LET f == frames[t][i]
          r == reg[t][f.key]
      IN  (f.mode = "body" /\ r.stack[f.l].active /\ r.stack[f.l].buf = f.sid)
            => EndsWithin(r, r.stack[f.l].guards, FLUX_POOL_SIZE)

\* C16: when the handler of a failed scope starts (no nested scope entered
\* since), every guard the scope registered with a cleanup action has been
\* called exactly once with the argument stored for it, whatever that
\* argument is, a null or zero handle included, in reverse order.
C16_EveryGuardInvokedWhateverArgument ==
  \A t \in Threads :
    (HandlerStarts(t) /\ NoNestedSince(t))
      => Pairs(CallsBy(t, last.sid)) =
           Reverse(Pairs(WithAction(RegsOf(t, last.sid))))

\* C19: in every state, the states between the two atomic updates of a
\* claim on a full pool included, the cursor of every guard pool is between
\* 0 and the capacity.
C19_CursorWithinCapacity ==
  \A t \in Threads : \A k \in Keys :
    reg[t][k].pool.idx \in 0..FLUX_POOL_SIZE

\* C20: however the first uses of several threads interleave, the
\* thread-local key is created exactly once, the one-time initialisation
\* never aborts, and a thread's registry is stored under that one key.
C20_KeyCreatedOnceNoAbort ==
  /\ nkeys <= 1
  /\ ~(proc.status = "aborted" /\ proc.why = "in_init")

\* C17: whenever control is in the handler body of a scope, the error
\* object the handler reads (the err field of its record) has the code and
\* the message it had when the handler started, also after the handler
\* entered further scopes in which other failures were signaled and handled.
C17_HandlerErrorStable ==
  \A t \in Threads :
    (pc[t] = "ready" /\ frames[t] # <<>> /\ TopFrame(t).mode = "handler")
      => LET f == TopFrame(t)
             e == reg[t][f.key].stack[f.l].err
         IN  e.code = f.seen.code /\ e.msg = f.seen.msg

\* C18: a failure signaled by a cleanup action while scope S is unwinding
\* is not delivered to S again: S, once a failure was signaled in it, is
\* not the target of a later failure and its unwind is not started again.
C18_UnwindingScopeNotTargetedAgain ==
  [][\A t \in Threads :
       (last'.op = "throw" /\ last'.t = t /\ pc[t] = "unwind" /\ frames[t] # <<>>)
         => last'.sid # TopFrame(t).sid]_vars
====
